---------------------------- MODULE Spec2Model ----------------------------
(***************************************************************************)
(* Session message protocol and interruption healing of the streamlit      *)
(* entry point (src/computer_use_demo/streamlit.py).                       *)
(*                                                                         *)
(* The session state is st.session_state: messages (the turn history),     *)
(* tools (the tool-outcome log, an insertion-ordered dict),                *)
(* responses (the API-exchange log), in_sampling_loop (the run-in-progress *)
(* flag), transcript and hide_images.  One execution of main() is one      *)
(* handler cycle; it either ends or suspends inside sampling_loop, whose   *)
(* steps are separate actions.  effects lists what the last step showed    *)
(* or stored outside the session state (streamlit elements, files).        *)
(***************************************************************************)
EXTENDS Integers, Sequences, FiniteSets, TLC

VARIABLES messages, tools, in_sampling_loop, transcript, pc, active_runs,
          event, heal_out, responses, hide_images, effects,
          provider, model, api_key, auth_validated

vars == <<messages, tools, in_sampling_loop, transcript, pc, active_runs,
          event, heal_out, responses, hide_images, effects,
          provider, model, api_key, auth_validated>>

\* the keys of the session state that the sidebar and the auth gate write
auth_vars == <<provider, model, api_key, auth_validated>>

(***************************************************************************)
(* Bounds of the model.                                                    *)
(***************************************************************************)
MaxMessages == 3      \* user submissions are accepted while the history is shorter
MaxToolUses == 2      \* tool_use blocks a session's runs emit in total
MaxBlocks == 3        \* blocks of a last message given to heal in isolation
MaxClock == 2         \* readings of datetime.now() range over 1..MaxClock
MaxCalls == 3         \* callback invocations of a run of the recorder alone
MaxExchanges == 1     \* API exchanges a session's runs report before a reset

(***************************************************************************)
(* Program constants.                                                      *)
(***************************************************************************)
INTERRUPT_TEXT == "(user stopped or interrupted and wrote the following)"
INTERRUPT_TOOL_ERROR == "human stopped or interrupted tool execution"

USER == "user"
BOT == "assistant"
TOOL == "tool"

None == "None"

(***************************************************************************)
(* Content blocks and tool outcomes.                                       *)
(***************************************************************************)
BetaTextBlockParam(t) == [type |-> "text", text |-> t]

ToolUseBlock(id) == [type |-> "tool_use", id |-> id]

BetaToolResultBlockParam(id, content, err) ==
    [type |-> "tool_result", tool_use_id |-> id, content |-> content,
     is_error |-> err]

\* ToolResult(error=..., output=...): a field not given is None; cls is the
\* name of the object's class (ToolResult or its subclass CLIResult)
ToolResult(output, error) ==
    [output |-> output, error |-> error, base64_image |-> None,
     cls |-> "ToolResult"]

\* A message.  is_sender tells whether the role object is the Sender enum
\* member (messages built by main) or a plain string (messages built by the
\* sampling loop): main's run trigger compares with `is`.
Message(role, is_sender, content) ==
    [role |-> role, is_sender |-> is_sender, content |-> content]

(***************************************************************************)
(* Python dict: insertion-ordered, unique keys, last write wins.           *)
(***************************************************************************)
DictKeys(d) == {d[i].key : i \in 1..Len(d)}

DictHas(d, k) == k \in DictKeys(d)

DictGet(d, k) == d[CHOOSE i \in 1..Len(d) : d[i].key = k].value

DictSet(d, k, v) ==
    IF DictHas(d, k)
    THEN [i \in 1..Len(d) |-> IF d[i].key = k THEN [key |-> k, value |-> v]
                                             ELSE d[i]]
    ELSE Append(d, [key |-> k, value |-> v])

(***************************************************************************)
(* maybe_add_interruption_blocks                                           *)
(***************************************************************************)
\* [block["id"] for block in content if block["type"] == "tool_use"]
previous_tool_use_ids(content) ==
    LET uses == SelectSeq(content, LAMBDA b : b.type = "tool_use")
    IN  [i \in 1..Len(uses) |-> uses[i].id]

\* the loop body's writes to st.session_state.tools, in order
RECURSIVE HealTools(_, _)
HealTools(d, ids) ==
    IF ids = <<>> THEN d
    ELSE HealTools(DictSet(d, Head(ids), ToolResult(None, INTERRUPT_TOOL_ERROR)),
                   Tail(ids))

\* mutant: the results are emitted last tool_use first
HealBlocks_reversed(ids) ==
    [i \in 1..Len(ids) |->
        BetaToolResultBlockParam(ids[Len(ids) + 1 - i], INTERRUPT_TOOL_ERROR, TRUE)]

\* the loop body's appends to result, in order
HealBlocks(ids) ==
    [i \in 1..Len(ids) |->
        BetaToolResultBlockParam(ids[i], INTERRUPT_TOOL_ERROR, TRUE)]

\* mutant: the sentinel outcomes are not written to the log
maybe_add_interruption_blocks_no_log(ss) ==
    IF ~ss.in_sampling_loop
    THEN [raised |-> FALSE, result |-> <<>>, tools |-> ss.tools]
    ELSE IF ss.messages = <<>>
    THEN [raised |-> TRUE, result |-> <<>>, tools |-> ss.tools]
    ELSE LET last_message == ss.messages[Len(ss.messages)]
             ids == previous_tool_use_ids(last_message.content)
         IN  [raised |-> FALSE,
              result |-> Append(HealBlocks(ids), BetaTextBlockParam(INTERRUPT_TEXT)),
              tools  |-> ss.tools]

\* mutant: the early return on a false flag is missing
maybe_add_interruption_blocks_no_guard(ss) ==
    IF ss.messages = <<>>
    THEN [raised |-> TRUE, result |-> <<>>, tools |-> ss.tools]
    ELSE LET last_message == ss.messages[Len(ss.messages)]
             ids == previous_tool_use_ids(last_message.content)
         IN  [raised |-> FALSE,
              result |-> Append(HealBlocks(ids), BetaTextBlockParam(INTERRUPT_TEXT)),
              tools  |-> HealTools(ss.tools, ids)]

\* mutant: the function returns before healing whatever the flag says
maybe_add_interruption_blocks_never(ss) ==
    [raised |-> FALSE, result |-> <<>>, tools |-> ss.tools]

\* ss is the session state; the value is the returned list (result), the
\* tool-outcome log after the call, and whether the call raised (IndexError
\* of messages[-1] on an empty history).
maybe_add_interruption_blocks(ss) ==
    IF ~ss.in_sampling_loop
    THEN [raised |-> FALSE, result |-> <<>>, tools |-> ss.tools]
    ELSE IF ss.messages = <<>>
    THEN [raised |-> TRUE, result |-> <<>>, tools |-> ss.tools]
    ELSE LET last_message == ss.messages[Len(ss.messages)]
             ids == previous_tool_use_ids(last_message.content)
         IN  [raised |-> FALSE,
              result |-> Append(HealBlocks(ids), BetaTextBlockParam(INTERRUPT_TEXT)),
              tools  |-> HealTools(ss.tools, ids)]

(***************************************************************************)
(* The session state as one value, and setup_state.                        *)
(***************************************************************************)
SessionState ==
    [messages |-> messages, tools |-> tools,
     in_sampling_loop |-> in_sampling_loop, transcript |-> transcript,
     responses |-> responses, hide_images |-> hide_images,
     provider |-> provider, model |-> model, api_key |-> api_key,
     auth_validated |-> auth_validated,
     raised |-> FALSE, returned |-> FALSE, effects |-> <<>>]

\* the members of APIProvider that the provider radio offers
ANTHROPIC == "anthropic"
BEDROCK == "bedrock"
VERTEX == "vertex"

APIProvider == {ANTHROPIC, BEDROCK, VERTEX}

PROVIDER_TO_DEFAULT_MODEL_NAME ==
    [p \in APIProvider |->
        CASE p = ANTHROPIC -> "claude-3-7-sonnet-20250219"
          [] p = BEDROCK   -> "anthropic.claude-3-5-sonnet-20241022-v2:0"
          [] p = VERTEX    -> "claude-3-5-sonnet-v2@20241022"]

\* os.getenv("API_PROVIDER", "anthropic") and os.getenv("ANTHROPIC_API_KEY", "")
\* with neither variable set
API_PROVIDER == ANTHROPIC
ANTHROPIC_API_KEY == ""

\* load_from_storage("api_key") or os.getenv("ANTHROPIC_API_KEY", ""): the file
\* holds the last key the user entered (every edit is saved), and a file that
\* is empty reads as None
load_api_key(stored) == IF stored # "" THEN stored ELSE ANTHROPIC_API_KEY

\* st.session_state.model = PROVIDER_TO_DEFAULT_MODEL_NAME[st.session_state.provider]
_reset_model(ss) ==
    [ss EXCEPT !.model = PROVIDER_TO_DEFAULT_MODEL_NAME[ss.provider]]

\* st.session_state.clear(); setup_state(): every key gets its default
setup_state ==
    _reset_model(
    [messages |-> <<>>, tools |-> <<>>, in_sampling_loop |-> FALSE,
     transcript |-> "", responses |-> <<>>, hide_images |-> FALSE,
     provider |-> API_PROVIDER, model |-> None,
     api_key |-> load_api_key(""), auth_validated |-> FALSE,
     raised |-> FALSE, returned |-> FALSE, effects |-> <<>>])

(***************************************************************************)
(* Inputs of one handler cycle: the widgets' values.                       *)
(***************************************************************************)
NoAudio == "no_audio"

\* what transcribe_audio returns: None on failure, else the text
Transcripts == {None, "", "hello"}

AudioInputs == {NoAudio} \cup Transcripts

TextInputs == {"", " ", "hi"}

\* str.strip() on the typed texts
strip(text_input) == IF text_input \in {"", " "} THEN "" ELSE text_input

\* Python truthiness of transcribe_audio's value
Truthy(t) == t # None /\ t # ""

(***************************************************************************)
(* Rendering.  A rendering is a list of effects; _render_message opens one *)
(* st.chat_message(sender) and calls streamlit elements inside it.         *)
(***************************************************************************)
Call(name, arg) == [call |-> name, arg |-> arg]

ChatMessage(sender, parts) ==
    [kind |-> "chat_message", sender |-> sender, parts |-> parts]

\* a str message is the record [str |-> text]; a dict block has a type; any
\* other message is a ToolResult object
is_tool_result(message) ==
    ~("str" \in DOMAIN message) /\ ~("type" \in DOMAIN message)

\* `not message` for the str messages ("" is falsy); blocks and the recorded
\* outcomes of the model are never empty
Falsy(message) == "str" \in DOMAIN message /\ message.str = ""

\* lines 756-766: output (code for a CLIResult), then error, then image
render_tool_result(message, hide) ==
    (IF Truthy(message.output)
     THEN <<Call(IF message.cls = "CLIResult" THEN "st.code" ELSE "st.markdown",
                 message.output)>>
     ELSE <<>>)
    \o (IF Truthy(message.error) THEN <<Call("st.error", message.error)>> ELSE <<>>)
    \o (IF Truthy(message.base64_image) /\ ~hide
        THEN <<Call("st.image", message.base64_image)>> ELSE <<>>)

\* mutant: a block of another type than text, thinking, tool_use is dropped
_render_message_drop_unknown(sender, message, hide) ==
    IF \/ Falsy(message)
       \/ /\ is_tool_result(message)
          /\ hide
          /\ ~("error" \in DOMAIN message)
          /\ ~("output" \in DOMAIN message)
    THEN [raised |-> FALSE, effects |-> <<>>]
    ELSE IF is_tool_result(message)
    THEN [raised |-> FALSE,
          effects |-> <<ChatMessage(sender, render_tool_result(message, hide))>>]
    ELSE IF "type" \in DOMAIN message
    THEN IF message.type = "text"
         THEN [raised |-> FALSE,
               effects |-> <<ChatMessage(sender, <<Call("st.write", message.text)>>)>>]
         ELSE IF message.type = "thinking"
         THEN [raised |-> FALSE,
               effects |-> <<ChatMessage(sender,
                                <<Call("st.markdown", <<"[Thinking]", message.thinking>>)>>)>>]
         ELSE IF message.type = "tool_use"
         THEN [raised |-> FALSE,
               effects |-> <<ChatMessage(sender, <<Call("st.code", message)>>)>>]
         ELSE [raised |-> FALSE, effects |-> <<ChatMessage(sender, <<>>)>>]
    ELSE [raised |-> FALSE,
          effects |-> <<ChatMessage(sender, <<Call("st.markdown", message.str)>>)>>]

\* lines 741-780; the value is the effects and whether the call raised
_render_message(sender, message, hide) ==
    IF \/ Falsy(message)
       \/ /\ is_tool_result(message)
          /\ hide
          /\ ~("error" \in DOMAIN message)
          /\ ~("output" \in DOMAIN message)
    THEN [raised |-> FALSE, effects |-> <<>>]
    ELSE IF is_tool_result(message)
    THEN [raised |-> FALSE,
          effects |-> <<ChatMessage(sender, render_tool_result(message, hide))>>]
    ELSE IF "type" \in DOMAIN message
    THEN IF message.type = "text"
         THEN [raised |-> FALSE,
               effects |-> <<ChatMessage(sender, <<Call("st.write", message.text)>>)>>]
         ELSE IF message.type = "thinking"
         THEN [raised |-> FALSE,
               effects |-> <<ChatMessage(sender,
                                <<Call("st.markdown", <<"[Thinking]", message.thinking>>)>>)>>]
         ELSE IF message.type = "tool_use"
         THEN [raised |-> FALSE,
               effects |-> <<ChatMessage(sender, <<Call("st.code", message)>>)>>]
         ELSE \* raise Exception("Unexpected response type ...") inside the container
              [raised |-> TRUE, effects |-> <<ChatMessage(sender, <<>>)>>]
    ELSE [raised |-> FALSE,
          effects |-> <<ChatMessage(sender, <<Call("st.markdown", message.str)>>)>>]

\* lines 531-539, one block of one message of the history: a tool_result
\* block is looked up in the tool-outcome log (KeyError when it is missing)
render_history_block(role, block, tool_state, hide) ==
    IF block.type = "tool_result"
    THEN IF ~DictHas(tool_state, block.tool_use_id)
         THEN [raised |-> TRUE, effects |-> <<>>]
         ELSE _render_message(TOOL, DictGet(tool_state, block.tool_use_id), hide)
    ELSE _render_message(role, block, hide)

\* lines 528-539: the blocks of one message, up to the first that raises
RECURSIVE render_blocks(_, _, _, _)
render_blocks(role, content, tool_state, hide) ==
    IF content = <<>> THEN [raised |-> FALSE, effects |-> <<>>]
    ELSE LET first == render_history_block(role, Head(content), tool_state, hide)
         IN  IF first.raised THEN first
             ELSE LET rest == render_blocks(role, Tail(content), tool_state, hide)
                  IN  [raised |-> rest.raised,
                       effects |-> first.effects \o rest.effects]

\* lines 523-539: messages whose role equals Sender.USER are skipped
RECURSIVE render_messages(_, _, _)
render_messages(msgs, tool_state, hide) ==
    IF msgs = <<>> THEN [raised |-> FALSE, effects |-> <<>>]
    ELSE LET first == IF Head(msgs).role # USER
                      THEN render_blocks(Head(msgs).role, Head(msgs).content,
                                         tool_state, hide)
                      ELSE [raised |-> FALSE, effects |-> <<>>]
         IN  IF first.raised THEN first
             ELSE LET rest == render_messages(Tail(msgs), tool_state, hide)
                  IN  [raised |-> rest.raised,
                       effects |-> first.effects \o rest.effects]

\* lines 518-541 within main
render_history(ss) ==
    IF ss.raised THEN ss
    ELSE LET r == render_messages(ss.messages, ss.tools, ss.hide_images)
         IN  [ss EXCEPT !.raised = r.raised, !.effects = ss.effects \o r.effects]

\* lines 688-709
_render_api_response(request, response, response_id) ==
    [kind |-> "api_response", response_id |-> response_id,
     request |-> request, response |-> response]

\* lines 543-545
render_responses(ss) ==
    IF ss.raised THEN ss
    ELSE [ss EXCEPT !.effects = ss.effects \o
             [i \in 1..Len(ss.responses) |->
                 _render_api_response(ss.responses[i].value.request,
                                      ss.responses[i].value.response,
                                      ss.responses[i].key)]]

st_error(ss, text) ==
    [ss EXCEPT !.effects = Append(ss.effects, [kind |-> "st.error", text |-> text])]

(***************************************************************************)
(* main: the message appends of the voice handler and the Send handler.    *)
(***************************************************************************)
\* mutant: the history is assigned a one-message list instead of appended to
append_user_message_assign(ss, text) ==
    IF ss.raised THEN ss
    ELSE LET heal == maybe_add_interruption_blocks(ss)
         IN  IF heal.raised THEN [ss EXCEPT !.raised = TRUE]
             ELSE [ss EXCEPT
                     !.tools = heal.tools,
                     !.messages = <<Message(USER, TRUE,
                                 Append(heal.result, BetaTextBlockParam(text)))>>]

\* mutant: the user's text is put before the healer's blocks
append_user_message_text_first(ss, text) ==
    IF ss.raised THEN ss
    ELSE LET heal == maybe_add_interruption_blocks(ss)
         IN  IF heal.raised THEN [ss EXCEPT !.raised = TRUE]
             ELSE [ss EXCEPT
                     !.tools = heal.tools,
                     !.messages = Append(ss.messages,
                         Message(USER, TRUE,
                                 <<BetaTextBlockParam(text)>> \o heal.result))]

\* st.session_state.messages.append({"role": Sender.USER, "content":
\*     [*maybe_add_interruption_blocks(), BetaTextBlockParam(text)]})
append_user_message(ss, text) ==
    IF ss.raised THEN ss
    ELSE LET heal == maybe_add_interruption_blocks(ss)
         IN  IF heal.raised THEN [ss EXCEPT !.raised = TRUE]
             ELSE [ss EXCEPT
                     !.tools = heal.tools,
                     !.messages = Append(ss.messages,
                         Message(USER, TRUE,
                                 Append(heal.result, BetaTextBlockParam(text))))]

set_transcript(ss, text) ==
    IF ss.raised THEN ss ELSE [ss EXCEPT !.transcript = text]

\* lines 307-319: an exception of the transcription service is shown and
\* turned into None
transcribe_audio(ss, audio) ==
    IF audio = None THEN st_error(ss, "Error transcribing audio") ELSE ss

\* mutant: the transcript is stored before it is tested
voice_input_handler_store_first(ss, audio) ==
    IF audio = NoAudio THEN ss
    ELSE IF Truthy(audio)
         THEN append_user_message(set_transcript(ss, audio), audio)
         ELSE st_error(set_transcript(transcribe_audio(ss, audio), audio),
                       "Failed to transcribe audio.")

\* lines 450-483
voice_input_handler(ss, audio) ==
    IF audio = NoAudio THEN ss
    ELSE IF Truthy(audio)
         THEN append_user_message(set_transcript(ss, audio), audio)
         ELSE st_error(transcribe_audio(ss, audio), "Failed to transcribe audio.")

\* lines 485-487
show_transcript(ss) ==
    IF ss.raised \/ ss.transcript = "" THEN ss
    ELSE [ss EXCEPT !.effects =
             Append(ss.effects, [kind |-> "transcript_area", text |-> ss.transcript])]

\* lines 490-513
send_handler(ss, send_text, text_input) ==
    IF send_text /\ strip(text_input) # ""
    THEN append_user_message(
             set_transcript(append_user_message(ss, text_input), text_input),
             text_input)
    ELSE ss

\* mutant: Reset empties the history only
reset_handler_history_only(ss, reset) ==
    IF reset THEN [ss EXCEPT !.messages = <<>>] ELSE ss

\* lines 412-415
reset_handler(ss, reset) ==
    IF reset
    THEN [setup_state EXCEPT !.api_key = load_api_key(ss.api_key),
                             !.effects = ss.effects]
    ELSE ss

\* what the user did in the sidebar to cause the cycle
NoEdit == [widget |-> "none"]
KeyEdit(key) == [widget |-> "api_key", value |-> key]
ProviderChange(p) == [widget |-> "provider_radio", value |-> p]

ApiKeys == {"", "sk-ant"}

\* lines 340-344, the on_change callback of the provider radio
_reset_api_provider(ss, provider_radio) ==
    IF provider_radio # ss.provider
    THEN [_reset_model(ss) EXCEPT !.provider = provider_radio,
                                  !.auth_validated = FALSE]
    ELSE ss

\* lines 357-363: the widget writes the key under "api_key" and its on_change
\* callback saves it
api_key_on_change(ss, key) ==
    [ss EXCEPT !.api_key = key,
               !.effects = Append(ss.effects,
                   [kind |-> "save_to_storage", filename |-> "api_key",
                    data |-> key])]

\* the callbacks streamlit runs before the script
sidebar_callbacks(ss, sidebar) ==
    CASE sidebar.widget = "api_key"        -> api_key_on_change(ss, sidebar.value)
      [] sidebar.widget = "provider_radio" -> _reset_api_provider(ss, sidebar.value)
      [] OTHER                             -> ss

\* lines 615-635; credentials says whether the environment holds what the
\* Bedrock and Vertex branches look for (for Vertex, the region variable and
\* the google credentials: the text is that of the first test).  The value is
\* the error text or None.
validate_auth(p, key, credentials) ==
    IF p = ANTHROPIC /\ key = ""
    THEN "Enter your Anthropic API key in the sidebar to continue."
    ELSE IF p = BEDROCK /\ ~credentials
    THEN "You must have AWS credentials set up to use the Bedrock API."
    ELSE IF p = VERTEX /\ ~credentials
    THEN "Set the CLOUD_ML_REGION environment variable to use the Vertex API."
    ELSE None

\* lines 422-429; returned says that main returned at the gate
auth_gate(ss, credentials) ==
    IF ss.auth_validated THEN ss
    ELSE LET auth_error == validate_auth(ss.provider, ss.api_key, credentials)
         IN  IF auth_error # None
             THEN [ss EXCEPT !.returned = TRUE,
                             !.effects = Append(ss.effects,
                                 [kind |-> "st.warning", text |-> auth_error])]
             ELSE [ss EXCEPT !.auth_validated = TRUE]

\* lines 340-429: the sidebar and the gate
sidebar_and_gate(sidebar, reset, credentials) ==
    auth_gate(reset_handler(sidebar_callbacks(SessionState, sidebar), reset),
              credentials)

\* mutant: the run starts whatever the role of the last message
run_trigger_any_role(ss) ==
    /\ ~ss.raised
    /\ ~ss.returned
    /\ ss.messages # <<>>

\* lines 547-553: does the cycle enter track_sampling_loop / sampling_loop ?
run_trigger(ss) ==
    /\ ~ss.returned
    /\ ~ss.raised
    /\ ss.messages # <<>>
    /\ LET most_recent_message == ss.messages[Len(ss.messages)]
       IN  most_recent_message.role = USER /\ most_recent_message.is_sender

\* track_sampling_loop.__enter__
track_sampling_loop_enter(flag) == TRUE

\* mutant: the flag is not cleared after the yield
track_sampling_loop_exit_stale(flag) == flag

\* track_sampling_loop.__exit__ without an exception: the code after yield
track_sampling_loop_exit(flag) == FALSE

\* track_sampling_loop.__exit__ with an exception thrown into the generator
\* at the yield: there is no try/finally, the code after yield is skipped
track_sampling_loop_exit_exc(flag) == flag

AppendsMessage(audio, send_text, text_input) ==
    \/ (audio # NoAudio /\ Truthy(audio))
    \/ (send_text /\ strip(text_input) # "")

\* One execution of main() up to its end or to the await of sampling_loop.
main(sidebar, credentials, reset, audio, send_text, text_input) ==
    /\ pc = "idle"
    /\ AppendsMessage(audio, send_text, text_input) => Len(messages) < MaxMessages
    /\ \E s0 \in {sidebar_and_gate(sidebar, reset, credentials)} :
       \* a cycle that returns at the gate shows neither the recorder nor Send
       /\ s0.returned => audio = NoAudio /\ ~send_text
       /\ \E s3 \in {IF s0.returned THEN s0
                      ELSE render_responses(render_history(
                               send_handler(
                                   show_transcript(voice_input_handler(s0, audio)),
                                   send_text, text_input)))} :
          LET run == run_trigger(s3)
          IN  /\ messages' = s3.messages
              /\ responses' = s3.responses
              /\ hide_images' = s3.hide_images
              /\ effects' = s3.effects
              /\ tools' = s3.tools
              /\ transcript' = s3.transcript
              /\ provider' = s3.provider
              /\ model' = s3.model
              /\ api_key' = s3.api_key
              /\ auth_validated' = s3.auth_validated
              /\ in_sampling_loop' = IF run
                                     THEN track_sampling_loop_enter(s3.in_sampling_loop)
                                     ELSE s3.in_sampling_loop
              /\ pc' = IF run THEN "running" ELSE "idle"
              /\ active_runs' = IF run THEN active_runs + 1 ELSE active_runs
              /\ event' = [kind |-> "main", reset |-> reset, audio |-> audio,
                           send_text |-> send_text, text_input |-> text_input,
                           raised |-> s3.raised, run |-> run,
                           stale |-> in_sampling_loop,
                           sidebar |-> sidebar, credentials |-> credentials,
                           returned |-> s3.returned]
    /\ UNCHANGED heal_out

\* the sidebar edits a cycle can start with: the key input is shown for the
\* Anthropic provider only, and a callback runs only when the value changed
SidebarInputs ==
    {NoEdit}
    \cup (IF provider = ANTHROPIC THEN {KeyEdit(k) : k \in ApiKeys \ {api_key}} ELSE {})
    \cup {ProviderChange(p) : p \in APIProvider \ {provider}}

\* the environment's credentials matter when the gate validates Bedrock or
\* Vertex
Credentials(sidebar) ==
    IF provider = ANTHROPIC /\ sidebar.widget # "provider_radio"
    THEN {FALSE} ELSE BOOLEAN

\* a cycle of a session whose user leaves the sidebar's inputs alone
Rerun ==
    \E reset \in BOOLEAN, audio \in AudioInputs, send_text \in BOOLEAN :
        \* a text that is typed but not sent has no effect: it is left empty
        \E text_input \in IF send_text THEN TextInputs ELSE {""} :
            \E credentials \in Credentials(NoEdit) :
                main(NoEdit, credentials, reset, audio, send_text, text_input)

(***************************************************************************)
(* The agent run: sampling_loop, suspended between its steps.  It works on *)
(* the list object st.session_state.messages (passed as messages=) and     *)
(* reports through the callbacks.                                          *)
(***************************************************************************)
RECURSIVE CountToolUses(_)
CountToolUses(msgs) ==
    IF msgs = <<>> THEN 0
    ELSE Len(previous_tool_use_ids(Head(msgs).content)) + CountToolUses(Tail(msgs))

LastMessage == messages[Len(messages)]

\* tool_use ids of the last message that have no recorded outcome yet
PendingToolUses ==
    SelectSeq(previous_tool_use_ids(LastMessage.content),
              LAMBDA id : ~DictHas(tools, id))

ToolOutputs == {ToolResult("ok", None), ToolResult(None, "failed")}

\* mutant: an id that has an outcome keeps it (setdefault)
_tool_output_callback_keep_first(tool_output, tool_id, tool_state) ==
    IF DictHas(tool_state, tool_id) THEN tool_state
    ELSE DictSet(tool_state, tool_id, tool_output)

\* tool_state[tool_id] = tool_output
_tool_output_callback(tool_output, tool_id, tool_state) ==
    DictSet(tool_state, tool_id, tool_output)

\* line 685: _render_message(Sender.TOOL, tool_output)
tool_output_rendering(tool_output, hide) ==
    _render_message(TOOL, tool_output, hide).effects

(***************************************************************************)
(* _api_response_callback and _render_error.                               *)
(***************************************************************************)
NoError == [cls |-> "None"]

\* a RateLimitError with the retry-after header of its response (None: absent)
RateLimitError(retry_after) == [cls |-> "RateLimitError", retry_after |-> retry_after]

APIError == [cls |-> "APIStatusError"]

ApiErrors ==
    {NoError, RateLimitError(None), RateLimitError("30"), RateLimitError("soon"),
     APIError}

\* int(retry_after) raises ValueError unless the header is a decimal number
IntParses(text) == text \in {"30"}

\* datetime.isoformat(): one string per reading, distinct readings differ
isoformat(now) == <<"T", now>>

\* lines 712-724: the body is stored as error_<timestamp>.md and then shown;
\* the value is the effects and whether the call raised
_render_error(error) ==
    IF /\ error.cls = "RateLimitError"
       /\ Truthy(error.retry_after)
       /\ ~IntParses(error.retry_after)
    THEN [raised |-> TRUE, effects |-> <<>>]
    ELSE [raised |-> FALSE,
          effects |-> <<[kind |-> "save_to_storage", filename |-> "error.md",
                         data |-> error],
                        [kind |-> "st.error", text |-> error.cls]>>]

\* mutant: the error is rendered before the exchange is stored
_api_response_callback_render_first(request, response, error, now, response_state) ==
    LET response_id == isoformat(now)
        recorded == DictSet(response_state, response_id,
                            [request |-> request, response |-> response])
        shown == IF error # NoError THEN _render_error(error)
                 ELSE [raised |-> FALSE, effects |-> <<>>]
    IN  IF shown.raised
        THEN [response_state |-> response_state, raised |-> TRUE,
              effects |-> shown.effects]
        ELSE [response_state |-> recorded, raised |-> FALSE,
              effects |-> shown.effects
                          \o <<[kind |-> "record", response_id |-> response_id]>>
                          \o <<_render_api_response(request, response, response_id)>>]

\* lines 663-677, now is the reading of datetime.now(); the value is the log
\* after the call, the effects in order, and whether the call raised
_api_response_callback(request, response, error, now, response_state) ==
    LET response_id == isoformat(now)
        recorded == DictSet(response_state, response_id,
                            [request |-> request, response |-> response])
        shown == IF error # NoError THEN _render_error(error)
                 ELSE [raised |-> FALSE, effects |-> <<>>]
    IN  IF shown.raised
        THEN [response_state |-> recorded, raised |-> TRUE,
              effects |-> <<[kind |-> "record", response_id |-> response_id]>>
                          \o shown.effects]
        ELSE [response_state |-> recorded, raised |-> FALSE,
              effects |-> <<[kind |-> "record", response_id |-> response_id]>>
                          \o shown.effects
                          \o <<_render_api_response(request, response, response_id)>>]

\* the reading of the last recorded exchange (readings do not decrease)
LastReading(response_state) ==
    IF response_state = <<>> THEN 1
    ELSE response_state[Len(response_state)].key[2]

ApiResponse(error) == IF error = NoError THEN "200" ELSE "error body"

\* an API call of the run ends: api_response_callback(request, response, error).
\* An exception of the callback ends the run like any other.
LoopApiResponse(now, error) ==
    /\ pc = "running"
    /\ Len(responses) < MaxExchanges
    /\ now >= LastReading(responses)
    /\ LET r == _api_response_callback("POST", ApiResponse(error), error, now,
                                       responses)
       IN  /\ responses' = r.response_state
           /\ effects' = r.effects
           /\ IF r.raised
              THEN /\ in_sampling_loop' = track_sampling_loop_exit_exc(in_sampling_loop)
                   /\ pc' = "idle"
                   /\ active_runs' = active_runs - 1
                   /\ event' = [kind |-> "raise"]
              ELSE /\ event' = [kind |-> "api_response", error |-> error]
                   /\ UNCHANGED <<in_sampling_loop, pc, active_runs>>
    /\ UNCHANGED <<messages, tools, transcript, heal_out, hide_images>>
    /\ UNCHANGED auth_vars

\* the model replies with n tool_use blocks under fresh ids
LoopAssistant(n) ==
    /\ pc = "running"
    /\ LastMessage.role = USER
    /\ CountToolUses(messages) + n <= MaxToolUses
    /\ LET first == CountToolUses(messages)
       IN  messages' = Append(messages,
               Message(BOT, FALSE, [i \in 1..n |-> ToolUseBlock(first + i)]))
    /\ effects' = render_blocks(BOT, messages'[Len(messages')].content, tools,
                                hide_images).effects
    /\ event' = [kind |-> "assistant"]
    /\ UNCHANGED <<tools, in_sampling_loop, transcript, pc, active_runs, heal_out,
                   responses, hide_images>>
    /\ UNCHANGED auth_vars

\* one tool of the last assistant message finishes
LoopTool(tool_output) ==
    /\ pc = "running"
    /\ LastMessage.role = BOT
    /\ PendingToolUses # <<>>
    /\ tools' = _tool_output_callback(tool_output, Head(PendingToolUses), tools)
    /\ effects' = tool_output_rendering(tool_output, hide_images)
    /\ event' = [kind |-> "tool"]
    /\ UNCHANGED <<messages, in_sampling_loop, transcript, pc, active_runs, heal_out,
                   responses, hide_images>>
    /\ UNCHANGED auth_vars

\* all tools of the last assistant message finished: their results go back
LoopToolResults ==
    /\ pc = "running"
    /\ LastMessage.role = BOT
    /\ previous_tool_use_ids(LastMessage.content) # <<>>
    /\ PendingToolUses = <<>>
    /\ LET ids == previous_tool_use_ids(LastMessage.content)
       IN  messages' = Append(messages,
               Message(USER, FALSE,
                   [i \in 1..Len(ids) |->
                       LET r == DictGet(tools, ids[i])
                       IN  BetaToolResultBlockParam(ids[i],
                               IF r.error # None THEN r.error ELSE r.output,
                               r.error # None)]))
    /\ event' = [kind |-> "tool_results"]
    /\ effects' = <<>>
    /\ UNCHANGED <<tools, in_sampling_loop, transcript, pc, active_runs, heal_out,
                   responses, hide_images>>
    /\ UNCHANGED auth_vars

\* lines 555-581 after the await: the returned history replaces the session's,
\* the transcript is cleared, and track_sampling_loop resumes after its yield
run_returned(ss, returned) ==
    [ss EXCEPT !.messages = returned,
               !.transcript = "",
               !.in_sampling_loop = track_sampling_loop_exit(ss.in_sampling_loop)]

\* the model replies without tool_use: sampling_loop returns the history
LoopReturn ==
    /\ pc = "running"
    /\ LastMessage.role = USER
    /\ LET returned == Append(messages,
                           Message(BOT, FALSE, <<BetaTextBlockParam("done")>>))
           s == run_returned(SessionState, returned)
       IN  /\ messages' = s.messages
           /\ transcript' = s.transcript
           /\ in_sampling_loop' = s.in_sampling_loop
           /\ event' = [kind |-> "return", returned |-> returned]
    /\ effects' = _render_message(BOT, BetaTextBlockParam("done"), hide_images).effects
    /\ pc' = "idle"
    /\ active_runs' = active_runs - 1
    /\ UNCHANGED <<tools, heal_out, responses, hide_images>>
    /\ UNCHANGED auth_vars

\* sampling_loop raises: the exception leaves the with block and main
LoopRaise ==
    /\ pc = "running"
    /\ in_sampling_loop' = track_sampling_loop_exit_exc(in_sampling_loop)
    /\ pc' = "idle"
    /\ active_runs' = active_runs - 1
    /\ event' = [kind |-> "raise"]
    /\ effects' = <<>>
    /\ UNCHANGED <<messages, tools, transcript, heal_out, responses, hide_images>>
    /\ UNCHANGED auth_vars

\* the user acts (or presses stop) during the run: streamlit stops the script
\* with an exception raised inside it, before the next cycle starts
Interrupt ==
    /\ pc = "running"
    /\ in_sampling_loop' = track_sampling_loop_exit_exc(in_sampling_loop)
    /\ pc' = "idle"
    /\ active_runs' = active_runs - 1
    /\ event' = [kind |-> "interrupt"]
    /\ effects' = <<>>
    /\ UNCHANGED <<messages, tools, transcript, heal_out, responses, hide_images>>
    /\ UNCHANGED auth_vars

NoHeal == [called |-> FALSE, raised |-> FALSE, result |-> <<>>]

Init ==
    /\ messages = setup_state.messages
    /\ tools = setup_state.tools
    /\ in_sampling_loop = setup_state.in_sampling_loop
    /\ transcript = setup_state.transcript
    /\ pc = "idle"
    /\ active_runs = 0
    /\ event = [kind |-> "init"]
    /\ heal_out = NoHeal
    /\ responses = setup_state.responses
    /\ hide_images = setup_state.hide_images
    /\ effects = <<>>
    /\ provider = setup_state.provider
    /\ model = setup_state.model
    /\ api_key \in {load_api_key(stored) : stored \in ApiKeys}
    /\ auth_validated = setup_state.auth_validated

Next ==
    \/ Rerun
    \/ Interrupt
    \/ \E n \in 1..2 : LoopAssistant(n)
    \/ \E o \in ToolOutputs : LoopTool(o)
    \/ \E now \in 1..MaxClock, error \in ApiErrors : LoopApiResponse(now, error)
    \/ LoopToolResults
    \/ LoopReturn
    \/ LoopRaise

Spec == Init /\ [][Next]_vars

(***************************************************************************)
(* The session of a user who also edits the sidebar: key edits, provider   *)
(* changes, resets and typed submissions, with runs that return, raise or  *)
(* are interrupted without a tool call.                                    *)
(***************************************************************************)
\* one widget event starts a cycle: a sidebar edit comes with no button click
SidebarRerun ==
    \E sidebar \in SidebarInputs :
      \E reset \in IF sidebar = NoEdit THEN BOOLEAN ELSE {FALSE},
         send_text \in IF sidebar = NoEdit THEN BOOLEAN ELSE {FALSE} :
        \E credentials \in Credentials(sidebar) :
          \E audio \in {NoAudio, "hello"} :
            main(sidebar, credentials, reset, audio, send_text,
                 IF send_text THEN "hi" ELSE "")

NextAuth ==
    \/ SidebarRerun
    \/ Interrupt
    \/ LoopReturn
    \/ LoopRaise

AuthSpec == Init /\ [][NextAuth]_vars

(***************************************************************************)
(* maybe_add_interruption_blocks applied to an arbitrary session state:    *)
(* HealSpec draws the history, the tool-outcome log and the flag from      *)
(* bounded sets and calls the function once.                               *)
(***************************************************************************)
HealIds == 1..3

HealBlockSet == {ToolUseBlock(id) : id \in HealIds} \cup {BetaTextBlockParam("x")}

\* contents of at most MaxBlocks blocks whose tool_use ids are distinct
HealContents ==
    {c \in UNION {[1..n -> HealBlockSet] : n \in 0..MaxBlocks} :
        \A i, j \in 1..Len(c) :
            (i # j /\ c[i].type = "tool_use" /\ c[j].type = "tool_use")
                => c[i].id # c[j].id}

FirstUserMessage == Message(USER, TRUE, <<BetaTextBlockParam("hi")>>)

HealHistories ==
    {<<>>, <<FirstUserMessage>>}
    \cup {<<FirstUserMessage, Message(BOT, FALSE, c)>> :
              c \in HealContents \ {<<>>}}

\* logs over the ids, keys in ascending order of insertion
HealLogs ==
    {d \in UNION {[1..n -> [key : HealIds, value : ToolOutputs]] : n \in 0..3} :
        \A i, j \in 1..Len(d) : i < j => d[i].key < d[j].key}

InitHeal ==
    /\ messages \in HealHistories
    /\ tools \in HealLogs
    /\ in_sampling_loop \in BOOLEAN
    /\ transcript = ""
    /\ pc = "heal"
    /\ active_runs = 0
    /\ event = [kind |-> "init"]
    /\ heal_out = NoHeal
    /\ responses = <<>>
    /\ hide_images = FALSE
    /\ effects = <<>>
    /\ provider = setup_state.provider
    /\ model = setup_state.model
    /\ api_key = setup_state.api_key
    /\ auth_validated = setup_state.auth_validated

HealCall ==
    /\ pc = "heal"
    /\ LET heal == maybe_add_interruption_blocks(SessionState)
       IN  /\ heal_out' = [called |-> TRUE, raised |-> heal.raised,
                           result |-> heal.result]
           /\ tools' = heal.tools
    /\ pc' = "healed"
    /\ event' = [kind |-> "heal"]
    /\ UNCHANGED <<messages, in_sampling_loop, transcript, active_runs,
                   responses, hide_images, effects>>
    /\ UNCHANGED auth_vars

NextHeal == HealCall

HealSpec == InitHeal /\ [][NextHeal]_vars

(***************************************************************************)
(* The Callback Recorder alone: RecorderSpec starts from the empty logs    *)
(* and invokes the two callbacks in any order, with any tool id, outcome,  *)
(* error and clock reading (readings do not decrease).  event keeps the    *)
(* calls made so far.                                                      *)
(***************************************************************************)
RecorderIds == 1..2

InitRecorder ==
    /\ messages = <<>>
    /\ tools = <<>>
    /\ responses = <<>>
    /\ in_sampling_loop = FALSE
    /\ transcript = ""
    /\ hide_images \in BOOLEAN
    /\ pc = "record"
    /\ active_runs = 0
    /\ heal_out = NoHeal
    /\ effects = <<>>
    /\ provider = setup_state.provider
    /\ model = setup_state.model
    /\ api_key = setup_state.api_key
    /\ auth_validated = setup_state.auth_validated
    /\ event = [kind |-> "record", last |-> "none", tool_calls |-> <<>>,
                api_calls |-> <<>>, raised |-> FALSE]

RecorderCalls == Len(event.tool_calls) + Len(event.api_calls)

\* the reading of the last call of _api_response_callback
RecorderReading ==
    IF event.api_calls = <<>> THEN 1
    ELSE event.api_calls[Len(event.api_calls)].now

RecordToolOutcome(tool_id, tool_output) ==
    /\ pc = "record"
    /\ RecorderCalls < MaxCalls
    /\ tools' = _tool_output_callback(tool_output, tool_id, tools)
    /\ effects' = tool_output_rendering(tool_output, hide_images)
    /\ event' = [event EXCEPT
                   !.last = "tool",
                   !.raised = FALSE,
                   !.tool_calls = Append(@, [tool_id |-> tool_id,
                                             tool_output |-> tool_output])]
    /\ UNCHANGED <<messages, responses, in_sampling_loop, transcript, hide_images,
                   pc, active_runs, heal_out>>
    /\ UNCHANGED auth_vars

RecordApiExchange(now, error) ==
    /\ pc = "record"
    /\ RecorderCalls < MaxCalls
    /\ now >= RecorderReading
    /\ LET r == _api_response_callback("POST", ApiResponse(error), error, now,
                                       responses)
       IN  /\ responses' = r.response_state
           /\ effects' = r.effects
           /\ event' = [event EXCEPT
                          !.last = "api",
                          !.raised = r.raised,
                          !.api_calls = Append(@, [now |-> now, error |-> error,
                                                   request |-> "POST",
                                                   response |-> ApiResponse(error)])]
    /\ UNCHANGED <<messages, tools, in_sampling_loop, transcript, hide_images,
                   pc, active_runs, heal_out>>
    /\ UNCHANGED auth_vars

NextRecorder ==
    \/ \E tool_id \in RecorderIds, tool_output \in ToolOutputs :
           RecordToolOutcome(tool_id, tool_output)
    \/ \E now \in 1..MaxClock, error \in ApiErrors : RecordApiExchange(now, error)

RecorderSpec == InitRecorder /\ [][NextRecorder]_vars

(***************************************************************************)
(* _render_message alone: RenderSpec draws the logs and the hide-images    *)
(* setting from bounded sets and dispatches one message.                   *)
(***************************************************************************)
CLIResult(output, error) == [ToolResult(output, error) EXCEPT !.cls = "CLIResult"]

WithImage(result, image) == [result EXCEPT !.base64_image = image]

RenderOutcomes ==
    ToolOutputs \cup
    {CLIResult("ls", None),
     WithImage(ToolResult(None, None), "png"),
     WithImage(ToolResult("ok", "warn"), "png")}

RenderBlocks ==
    {BetaTextBlockParam("hello"),
     [type |-> "thinking", thinking |-> "hm"],
     ToolUseBlock(1),
     BetaToolResultBlockParam(1, "ok", FALSE),
     [type |-> "redacted_thinking", data |-> "xx"],
     [type |-> "image", source |-> "png"]}

RenderMessages == RenderBlocks \cup RenderOutcomes \cup {[str |-> ""], [str |-> "hello"]}

RenderResponses ==
    {<<>>, <<[key |-> isoformat(1),
              value |-> [request |-> "POST", response |-> "200"]]>>}

InitRender ==
    /\ messages = <<>>
    /\ tools \in HealLogs
    /\ responses \in RenderResponses
    /\ in_sampling_loop = FALSE
    /\ transcript = ""
    /\ hide_images \in BOOLEAN
    /\ pc = "dispatch"
    /\ active_runs = 0
    /\ heal_out = NoHeal
    /\ effects = <<>>
    /\ provider = setup_state.provider
    /\ model = setup_state.model
    /\ api_key = setup_state.api_key
    /\ auth_validated = setup_state.auth_validated
    /\ event = [kind |-> "init"]

Dispatch(sender, message) ==
    /\ pc = "dispatch"
    /\ LET r == _render_message(sender, message, hide_images)
       IN  /\ effects' = r.effects
           /\ event' = [kind |-> "dispatch", sender |-> sender,
                        message |-> message, raised |-> r.raised]
    /\ pc' = "dispatched"
    /\ UNCHANGED <<messages, tools, responses, in_sampling_loop, transcript,
                   hide_images, active_runs, heal_out>>
    /\ UNCHANGED auth_vars

NextRender ==
    \E sender \in {BOT, TOOL}, message \in RenderMessages : Dispatch(sender, message)

RenderSpec == InitRender /\ [][NextRender]_vars

(***************************************************************************)
(* Helpers of the properties.                                              *)
(***************************************************************************)
IsPrefix(s, t) == Len(s) <= Len(t) /\ \A i \in 1..Len(s) : s[i] = t[i]

IsMarker(b) == b.type = "text" /\ b.text = INTERRUPT_TEXT

HasMarker(m) == \E i \in 1..Len(m.content) : IsMarker(m.content[i])

MarkerMessages(msgs) == Cardinality({i \in 1..Len(msgs) : HasMarker(msgs[i])})

\* ids of the tool_result blocks of a block list, in order
ToolResultIds(blocks) ==
    LET rs == SelectSeq(blocks, LAMBDA b : b.type = "tool_result")
    IN  [i \in 1..Len(rs) |-> rs[i].tool_use_id]

\* the step is the call of heal in HealSpec
HealStep == pc = "heal" /\ pc' = "healed"

(***************************************************************************)
(* Properties of maybe_add_interruption_blocks (under HealSpec).           *)
(***************************************************************************)
\* C1: when in_sampling_loop is true, the tool_result blocks heal emits are
\* exactly those for the tool_use ids of the last message that have no entry
\* in the tool-outcome log, in order, followed by one interruption marker.
C1_EmitsOnlyUnmatched ==
    [][(HealStep /\ in_sampling_loop /\ messages # <<>>) =>
          LET ids == previous_tool_use_ids(LastMessage.content)
              unmatched == SelectSeq(ids, LAMBDA id : ~DictHas(tools, id))
              result == heal_out'.result
          IN  /\ ToolResultIds(result) = unmatched
              /\ Len(result) = Len(unmatched) + 1
              /\ IsMarker(result[Len(result)])]_vars

\* C2: when in_sampling_loop is false, heal returns the empty list and leaves
\* the history, the tool-outcome log and the flag as they were.
C2_IdleHealIsEmpty ==
    [][(HealStep /\ ~in_sampling_loop) =>
          /\ heal_out'.called
          /\ ~heal_out'.raised
          /\ heal_out'.result = <<>>
          /\ messages' = messages
          /\ tools' = tools
          /\ in_sampling_loop' = in_sampling_loop]_vars

\* C2 witness: heal was called with the flag false on a history whose last
\* message holds tool_use blocks and a non-empty log, and returned nothing.
C2_Witness ==
    /\ pc = "healed"
    /\ heal_out.called
    /\ ~in_sampling_loop
    /\ messages # <<>>
    /\ previous_tool_use_ids(LastMessage.content) # <<>>
    /\ tools # <<>>
    /\ heal_out.result = <<>>

\* C3: heal leaves every entry that was in the tool-outcome log before the
\* call with the same value; it only adds entries for unmatched ids.
C3_KeepsRecordedOutcomes ==
    [][HealStep =>
          /\ Len(tools') >= Len(tools)
          /\ \A i \in 1..Len(tools) : tools'[i] = tools[i]]_vars

\* C4: heal never fails; with the flag true and an empty history it returns
\* the empty list.
C4_HealNeverFails ==
    (pc = "healed" /\ heal_out.called) =>
        /\ ~heal_out.raised
        /\ (messages = <<>> => heal_out.result = <<>>)

(***************************************************************************)
(* Properties of the session (under Spec).                                 *)
(***************************************************************************)
\* the cycle's inputs hold exactly one accepted submission and no reset
OneSubmission(e) ==
    /\ e.kind = "main"
    /\ ~e.reset
    /\ (e.audio # NoAudio /\ Truthy(e.audio))
           # (e.send_text /\ strip(e.text_input) # "")

\* C5: healing is applied at most once per interrupted run: a handler cycle
\* adds the interruption marker to at most one message of the history.
C5_HealedAtMostOnce ==
    [][MarkerMessages(messages') <= MarkerMessages(messages) + 1]_vars

\* C6: a user submission (an accepted transcript or a non-blank Send) grows
\* the history by exactly one user message and starts one run.
C6_OneMessagePerSubmission ==
    [][OneSubmission(event') =>
          /\ Len(messages') = Len(messages) + 1
          /\ messages'[Len(messages')].role = USER
          /\ pc' = "running"]_vars

\* C7: in_sampling_loop is true while a run is in progress, and when the run
\* returns the flag is false and the history is the one the run returned.
C7_FlagSpansRun ==
    [][/\ pc' = "running" => in_sampling_loop'
       /\ (pc = "running" /\ event'.kind = "return") =>
              /\ ~in_sampling_loop'
              /\ messages' = event'.returned
              /\ pc' = "idle"]_vars

\* C7 witness: a run that executed a tool has returned.
C7_Witness ==
    /\ event.kind = "return"
    /\ pc = "idle"
    /\ ~in_sampling_loop
    /\ messages = event.returned
    /\ tools # <<>>

\* C8: after a run ended by raising, in_sampling_loop is false.
C8_RaiseClearsFlag ==
    event.kind = "raise" => ~in_sampling_loop

C10_AppendOnly ==
    [][\/ event'.kind = "return"
       \/ (event'.kind = "main" /\ event'.reset)
       \/ IsPrefix(messages, messages')]_vars

\* C10 witness: a cycle without reset appended a healed user message behind
\* an assistant message.
C10_Witness ==
    /\ event.kind = "main"
    /\ ~event.reset
    /\ Len(messages) >= 3
    /\ \E i \in 2..Len(messages) :
           /\ messages[i - 1].role = BOT
           /\ messages[i].role = USER
           /\ HasMarker(messages[i])

\* C11: after a cycle with Reset the tool-outcome log and the API-exchange log
\* are empty and no message of the history carries healer blocks; when the
\* cycle holds no submission the history is empty and the flag is false.
C11_ResetClears ==
    [][(event'.kind = "main" /\ event'.reset) =>
          /\ tools' = <<>>
          /\ responses' = <<>>
          /\ \A i \in 1..Len(messages') :
                 /\ messages'[i].is_sender
                 /\ ~HasMarker(messages'[i])
                 /\ ToolResultIds(messages'[i].content) = <<>>
          /\ ~AppendsMessage(event'.audio, event'.send_text, event'.text_input)
                 => /\ messages' = <<>>
                    /\ ~in_sampling_loop'
                    /\ pc' = "idle"]_vars

\* C11 witness: Reset has acted on a session whose flag was still set from an
\* abandoned run (with a submission in the same cycle, whose message carries
\* no healer blocks) and every log is empty.
C11_Witness ==
    /\ event.kind = "main"
    /\ event.reset
    /\ event.stale
    /\ tools = <<>>
    /\ responses = <<>>
    /\ Len(messages) = 1
    /\ ~HasMarker(messages[1])

(***************************************************************************)
(* Properties of the Callback Recorder (under RecorderSpec).               *)
(***************************************************************************)
\* index of the first / last call of _tool_output_callback with the id
FirstToolCall(id) ==
    CHOOSE i \in 1..Len(event.tool_calls) :
        /\ event.tool_calls[i].tool_id = id
        /\ \A j \in 1..(i - 1) : event.tool_calls[j].tool_id # id

LastToolCall(id) ==
    CHOOSE i \in 1..Len(event.tool_calls) :
        /\ event.tool_calls[i].tool_id = id
        /\ \A j \in (i + 1)..Len(event.tool_calls) : event.tool_calls[j].tool_id # id

\* C12: after any sequence of recordings the tool-outcome log has exactly one
\* entry per recorded id (none is ever missing), holding the last outcome
\* recorded for it, and the ids are in the order of their first recording.
C12_ToolLogIsMap ==
    pc = "record" =>
        /\ \A i, j \in 1..Len(tools) : i # j => tools[i].key # tools[j].key
        /\ DictKeys(tools) =
               {event.tool_calls[i].tool_id : i \in 1..Len(event.tool_calls)}
        /\ \A i \in 1..Len(tools) :
               tools[i].value = event.tool_calls[LastToolCall(tools[i].key)].tool_output
        /\ \A i, j \in 1..Len(tools) :
               i < j => FirstToolCall(tools[i].key) < FirstToolCall(tools[j].key)

\* C12 witness: an id was recorded, then another id, then the first id again
\* with another outcome.
C12_Witness ==
    /\ pc = "record"
    /\ Len(event.tool_calls) = 3
    /\ event.tool_calls[1].tool_id = event.tool_calls[3].tool_id
    /\ event.tool_calls[1].tool_id # event.tool_calls[2].tool_id
    /\ event.tool_calls[1].tool_output # event.tool_calls[3].tool_output
    /\ Len(tools) = 2

\* C13: after N calls of _api_response_callback the exchange log has N
\* entries, the i-th entry being the i-th exchange.
C13_OneEntryPerExchange ==
    pc = "record" =>
        /\ Len(responses) = Len(event.api_calls)
        /\ \A i \in 1..Len(responses) :
               /\ responses[i].key = isoformat(event.api_calls[i].now)
               /\ responses[i].value.response = event.api_calls[i].response

\* C14: a call of _api_response_callback with an error stores the exchange
\* first, then runs the error rendering (which stores the error file and
\* shows the error), then the normal rendering; when the error rendering
\* fails the exchange is stored all the same.
C14_RecordThenErrorThenRender ==
    [][(pc = "record" /\ event'.last = "api"
        /\ Len(event'.api_calls) = Len(event.api_calls) + 1
        /\ event'.api_calls[Len(event'.api_calls)].error # NoError) =>
          LET call == event'.api_calls[Len(event'.api_calls)]
              id == isoformat(call.now)
          IN  /\ DictHas(responses', id)
              /\ DictGet(responses', id) =
                     [request |-> call.request, response |-> call.response]
              /\ Len(effects') >= 1
              /\ effects'[1] = [kind |-> "record", response_id |-> id]
              /\ IF event'.raised
                 THEN Len(effects') = 1
                 ELSE /\ Len(effects') = 4
                      /\ effects'[2].kind = "save_to_storage"
                      /\ effects'[3] = [kind |-> "st.error", text |-> call.error.cls]
                      /\ effects'[4] = _render_api_response(call.request,
                                                            call.response, id)]_vars

\* C14 witness: the rendering of a rate-limit error failed on its retry-after
\* header and the exchange is in the log.
C14_Witness ==
    /\ pc = "record"
    /\ event.last = "api"
    /\ event.raised
    /\ event.api_calls[Len(event.api_calls)].error = RateLimitError("soon")
    /\ DictHas(responses, isoformat(event.api_calls[Len(event.api_calls)].now))

(***************************************************************************)
(* Properties of the error reporting and of the rendering.                 *)
(***************************************************************************)
\* C15: every error a step shows to the user (st.error) is also stored as an
\* error file by the same step.
C15_ShownErrorsAreStored ==
    \A i \in 1..Len(effects) :
        effects[i].kind = "st.error" =>
            \E j \in 1..Len(effects) : effects[j].kind = "save_to_storage"

\* the content-block tags of the data model
KnownTags == {"text", "thinking", "tool_use", "tool_result"}

\* C16: dispatching a block whose tag is not one of the data model's raises,
\* shows nothing of the block, and leaves both logs as they were.
C16_UnknownTagRaises ==
    [][(pc = "dispatch" /\ pc' = "dispatched"
        /\ "type" \in DOMAIN event'.message
        /\ event'.message.type \notin KnownTags) =>
          /\ event'.raised
          /\ \A i \in 1..Len(effects') : effects'[i].parts = <<>>
          /\ tools' = tools
          /\ responses' = responses]_vars

\* C16 witness: a redacted_thinking block was dispatched with non-empty logs.
C16_Witness ==
    /\ pc = "dispatched"
    /\ "type" \in DOMAIN event.message
    /\ event.message.type = "redacted_thinking"
    /\ event.raised
    /\ tools # <<>>
    /\ responses # <<>>

\* a tool_result block of the history whose id has a recorded outcome
RecordedToolResults ==
    {DictGet(tools, messages[i].content[j].tool_use_id) :
        <<i, j>> \in {p \in (1..Len(messages)) \X (1..MaxBlocks + MaxToolUses) :
                         /\ p[2] <= Len(messages[p[1]].content)
                         /\ messages[p[1]].content[p[2]].type = "tool_result"
                         /\ DictHas(tools, messages[p[1]].content[p[2]].tool_use_id)}}

\* C17: when a cycle displays the history, every tool_result block of it whose
\* id has a recorded outcome is rendered as that outcome: output, then error,
\* then image unless images are hidden.
C17_ToolResultsRendered ==
    (event.kind = "main" /\ ~event.raised) =>
        \A outcome \in RecordedToolResults :
            \E k \in 1..Len(effects) :
                effects[k] = ChatMessage(TOOL, render_tool_result(outcome, hide_images))

\* C18: a cycle whose transcription fails (and that holds no Reset and no
\* Send) keeps the transcript, the history and the tool-outcome log, and
\* shows the failure to the user.
C18_FailedTranscription ==
    [][(/\ event'.kind = "main"
        /\ ~event'.reset
        /\ event'.audio # NoAudio
        /\ ~Truthy(event'.audio)
        /\ ~(event'.send_text /\ strip(event'.text_input) # "")) =>
          /\ transcript' = transcript
          /\ messages' = messages
          /\ tools' = tools
          /\ \E i \in 1..Len(effects') :
                 effects'[i] = [kind |-> "st.error",
                                text |-> "Failed to transcribe audio."]]_vars

\* C18 witness: the transcription failed in a session with a prior transcript
\* and the flag still set from an abandoned run with an open tool_use.
C18_Witness ==
    /\ event.kind = "main"
    /\ ~event.reset
    /\ event.audio = None
    /\ ~event.send_text
    /\ event.stale
    /\ transcript = "hello"
    /\ messages # <<>>
    /\ previous_tool_use_ids(LastMessage.content) # <<>>
    /\ tools = <<>>

(***************************************************************************)
(* Further properties of healing.                                          *)
(***************************************************************************)
Position(seq, x) == CHOOSE k \in 1..Len(seq) : seq[k] = x

\* C19: with the flag true and a non-empty history, heal returns tool_result
\* blocks for tool_use ids of the last message, in the order of the tool_use
\* blocks, then one interruption marker as the last block; each id emitted
\* has the sentinel error outcome in the log after the call.
C19_HealOutputShape ==
    [][(HealStep /\ in_sampling_loop /\ messages # <<>>) =>
          LET ids == previous_tool_use_ids(LastMessage.content)
              result == heal_out'.result
              n == Len(result)
          IN  /\ ~heal_out'.raised
              /\ n >= 1
              /\ IsMarker(result[n])
              /\ ids = <<>> => n = 1
              /\ \A i \in 1..(n - 1) :
                     /\ result[i].type = "tool_result"
                     /\ result[i].is_error
                     /\ result[i].content = INTERRUPT_TOOL_ERROR
                     /\ \E k \in 1..Len(ids) : ids[k] = result[i].tool_use_id
                     /\ DictHas(tools', result[i].tool_use_id)
                     /\ DictGet(tools', result[i].tool_use_id).error
                            = INTERRUPT_TOOL_ERROR
                     /\ DictGet(tools', result[i].tool_use_id).output = None
              /\ \A i, j \in 1..(n - 1) :
                     i < j => Position(ids, result[i].tool_use_id)
                                  < Position(ids, result[j].tool_use_id)]_vars

\* C19 witness: heal ran on a last message with two tool_use blocks around a
\* text block and returned two results and the marker.
C19_Witness ==
    /\ pc = "healed"
    /\ in_sampling_loop
    /\ messages # <<>>
    /\ Len(LastMessage.content) = 3
    /\ LastMessage.content[2].type = "text"
    /\ Len(previous_tool_use_ids(LastMessage.content)) = 2
    /\ Len(heal_out.result) = 3

\* the submitted texts of a cycle
SubmittedTexts(e) ==
    (IF e.audio # NoAudio /\ Truthy(e.audio) THEN {e.audio} ELSE {})
    \cup (IF e.send_text /\ strip(e.text_input) # "" THEN {e.text_input} ELSE {})

\* C20: every user message a cycle appends is heal's output on the state just
\* before the append followed by one text block with the user's text; with
\* the flag false it is that text block alone.
C20_AppendedContent ==
    [][(event'.kind = "main" /\ ~event'.raised) =>
          LET base == IF event'.reset THEN <<>> ELSE messages
              flag == IF event'.reset THEN FALSE ELSE in_sampling_loop
          IN  /\ IsPrefix(base, messages')
              /\ \A k \in (Len(base) + 1)..Len(messages') :
                   LET m == messages'[k]
                       before == [SessionState EXCEPT
                                    !.messages = SubSeq(messages', 1, k - 1),
                                    !.in_sampling_loop = flag]
                       heal == maybe_add_interruption_blocks(before).result
                   IN  /\ m.role = USER
                       /\ Len(m.content) = Len(heal) + 1
                       /\ SubSeq(m.content, 1, Len(heal)) = heal
                       /\ m.content[Len(m.content)].type = "text"
                       /\ m.content[Len(m.content)].text \in SubmittedTexts(event')
                       /\ ~flag => Len(m.content) = 1
                       /\ flag => IsMarker(m.content[Len(m.content) - 1])]_vars

\* C20 witness: a cycle appended a message made of a healer result, the
\* marker and the user's text.
C20_Witness ==
    /\ event.kind = "main"
    /\ event.stale
    /\ ~event.reset
    /\ messages # <<>>
    /\ Len(LastMessage.content) = 3
    /\ LastMessage.content[1].type = "tool_result"
    /\ IsMarker(LastMessage.content[2])
    /\ LastMessage.content[3] = BetaTextBlockParam("hello")

(***************************************************************************)
(* Properties of the run trigger and of the healer's blocks in the         *)
(* history (under Spec).                                                   *)
(***************************************************************************)
\* C21: a cycle starts a run only if the history is non-empty and ends with
\* a user-authored message; a cycle that leaves the history empty starts no
\* run and does not fail; and a cycle that appends nothing to a history
\* ending with an assistant message starts no run.
C21_RunNeedsUserMessage ==
    [][event'.kind = "main" =>
          /\ event'.run <=> pc' = "running"
          /\ event'.run =>
                 /\ messages' # <<>>
                 /\ messages'[Len(messages')].role = USER
                 /\ messages'[Len(messages')].is_sender
          /\ messages' = <<>> => ~event'.run /\ ~event'.raised /\ pc' = "idle"
          /\ (/\ messages # <<>>
              /\ messages[Len(messages)].role = BOT
              /\ messages' = messages) => ~event'.run /\ pc' = "idle"]_vars

\* C21 witness: a cycle ran after a run had returned a history ending with an
\* assistant message, appended nothing and started no run.
C21_Witness ==
    /\ event.kind = "main"
    /\ ~event.run
    /\ ~event.reset
    /\ ~event.returned
    /\ pc = "idle"
    /\ messages # <<>>
    /\ LastMessage.role = BOT
    /\ LastMessage.content = <<BetaTextBlockParam("done")>>

\* a tool_result block that heal synthesized
IsHealerResult(b) ==
    /\ b.type = "tool_result"
    /\ b.is_error
    /\ b.content = INTERRUPT_TOOL_ERROR

\* C22: every healer-synthesized tool_result block of the history names the
\* id of a tool_use block of a strictly earlier message, and the
\* tool-outcome log has an entry under that id.
C22_HealerResultsResolve ==
    \A i \in 1..Len(messages) :
        \A k \in 1..Len(messages[i].content) :
            IsHealerResult(messages[i].content[k]) =>
                LET id == messages[i].content[k].tool_use_id
                IN  /\ \E j \in 1..(i - 1) :
                           \E n \in 1..Len(messages[j].content) :
                               /\ messages[j].content[n].type = "tool_use"
                               /\ messages[j].content[n].id = id
                    /\ DictHas(tools, id)

\* C22 witness: a submission after an interrupted run put a healer result in
\* the history for a tool_use whose tool had not reported an outcome.
C22_Witness ==
    /\ event.kind = "main"
    /\ event.stale
    /\ messages # <<>>
    /\ IsHealerResult(LastMessage.content[1])
    /\ DictGet(tools, LastMessage.content[1].tool_use_id)
           = ToolResult(None, INTERRUPT_TOOL_ERROR)

(***************************************************************************)
(* Properties of the sidebar and the auth gate (under AuthSpec).           *)
(***************************************************************************)
\* C23: a cycle that appends a message or starts a run with the Anthropic
\* provider selected has a non-empty API key in the session state.
C23_RunHasApiKey ==
    [][(/\ event'.kind = "main"
        /\ provider' = ANTHROPIC
        /\ \/ event'.run
           \/ Len(messages') > (IF event'.reset THEN 0 ELSE Len(messages))) =>
          api_key' # ""]_vars

\* C24: after a cycle started by a change of the provider radio, the
\* session's provider is the selected one, the model is that provider's
\* default model, and auth_validated is true only if the gate validated the
\* credentials again in that cycle.
C24_ProviderChange ==
    [][(event'.kind = "main" /\ event'.sidebar.widget = "provider_radio") =>
          /\ provider' = event'.sidebar.value
          /\ model' = PROVIDER_TO_DEFAULT_MODEL_NAME[event'.sidebar.value]
          /\ auth_validated' =
                 (validate_auth(provider', api_key', event'.credentials) = None)
          /\ ~auth_validated' => event'.returned /\ ~event'.run]_vars

=============================================================================
